---- MODULE Spec2Model ----
(***************************************************************************)
(* Model of the todo store (hooks/useTodos.ts) and of the pure helpers it  *)
(* uses (utils/todoUtils.ts).                                              *)
(*                                                                         *)
(* A text is a sequence of characters.  A Date is the integer the clock    *)
(* showed when it was read; the clock never goes back.  Every operation of *)
(* the hook is one UI event handler and runs to completion; the component  *)
(* re-renders between two events, so each operation sees the state left by *)
(* the previous one.  isLoading is set on entry and reset in the finally   *)
(* block of the same handler, so it is false whenever a handler returns.   *)
(* Nothing the handlers call throws, so their catch blocks are not         *)
(* modelled.                                                               *)
(***************************************************************************)
EXTENDS Integers, Sequences, FiniteSets, TLC

\* ---------------------------------------------------------------- bounds
MaxTodos == 2
MaxTime == 1

\* ------------------------------------------------------------ characters
WhiteSpace == {" ", "\t"}

\* the texts typed into the input field: empty, white space only, too short,
\* padded, with an inner run of mixed white space, too long
InputTexts ==
  { <<>>,
    <<"\t", " ">>,
    <<"a">>,
    <<" ", "a", "a", "\t">>,
    <<"a", "\t", " ", "a">>,
    <<"a", "a", "a", "a">> }

\* null of `validationError: string | null` and `editingId: string | null`
Null == "<null>"
NullId == <<>>

RECURSIVE TrimStart(_)
TrimStart(s) ==
  IF s /= <<>> /\ Head(s) \in WhiteSpace THEN TrimStart(Tail(s)) ELSE s

RECURSIVE TrimEnd(_)
TrimEnd(s) ==
  IF s /= <<>> /\ s[Len(s)] \in WhiteSpace
    THEN TrimEnd(SubSeq(s, 1, Len(s) - 1))
    ELSE s

\* String.prototype.trim
Trim(s) == TrimEnd(TrimStart(s))

\* replace(/\s/g, ' '): every white space character on its own
RECURSIVE CollapseEachWhiteSpace(_)
CollapseEachWhiteSpace(s) ==
  IF s = <<>> THEN <<>>
  ELSE IF Head(s) \in WhiteSpace
    THEN <<" ">> \o CollapseEachWhiteSpace(Tail(s))
    ELSE <<Head(s)>> \o CollapseEachWhiteSpace(Tail(s))

\* replace(/\s+/g, ' ')
RECURSIVE CollapseWhiteSpace(_)
CollapseWhiteSpace(s) ==
  IF s = <<>> THEN <<>>
  ELSE IF Head(s) \in WhiteSpace
    THEN <<" ">> \o CollapseWhiteSpace(TrimStart(s))
    ELSE <<Head(s)>> \o CollapseWhiteSpace(Tail(s))

\* replace(/^\s+|\s+$/g, '')
StripEnds(s) == TrimEnd(TrimStart(s))

sanitizeTodoText(text) == StripEnds(CollapseWhiteSpace(Trim(text)))

\* ------------------------------------------------------------ validation
DEFAULT_VALIDATION_CONFIG ==
  [minLength |-> 1, maxLength |-> 500, allowEmpty |-> FALSE]

\* the validation configuration the store is constructed with: one under
\* which each of the three rules rejects some input text
ValidationConfigs ==
  { [minLength |-> 2, maxLength |-> 3, allowEmpty |-> FALSE] }

EmptyMessage == "Le texte de la tache ne peut pas etre vide"
TooShortMessage(config) ==
  "Le texte doit contenir au moins " \o ToString(config.minLength) \o " caractere(s)"
TooLongMessage(config) ==
  "Le texte ne peut pas depasser " \o ToString(config.maxLength) \o " caracteres"

\* validateTodoText without the minimal length rule
validateTodoTextNoMin(text, config) ==
  LET trimmedText == Trim(text) IN
  IF ~config.allowEmpty /\ Len(trimmedText) = 0
    THEN [isValid |-> FALSE, errorMessage |-> EmptyMessage]
  ELSE IF Len(trimmedText) > config.maxLength
    THEN [isValid |-> FALSE, errorMessage |-> TooLongMessage(config)]
  ELSE [isValid |-> TRUE, errorMessage |-> Null]

\* validateTodoText without the maximal length rule
validateTodoTextNoMax(text, config) ==
  LET trimmedText == Trim(text) IN
  IF ~config.allowEmpty /\ Len(trimmedText) = 0
    THEN [isValid |-> FALSE, errorMessage |-> EmptyMessage]
  ELSE IF Len(trimmedText) < config.minLength
    THEN [isValid |-> FALSE, errorMessage |-> TooShortMessage(config)]
  ELSE [isValid |-> TRUE, errorMessage |-> Null]

validateTodoText(text, config) ==
  LET trimmedText == Trim(text) IN
  IF ~config.allowEmpty /\ Len(trimmedText) = 0
    THEN [isValid |-> FALSE, errorMessage |-> EmptyMessage]
  ELSE IF Len(trimmedText) < config.minLength
    THEN [isValid |-> FALSE, errorMessage |-> TooShortMessage(config)]
  ELSE IF Len(trimmedText) > config.maxLength
    THEN [isValid |-> FALSE, errorMessage |-> TooLongMessage(config)]
  ELSE [isValid |-> TRUE, errorMessage |-> Null]

\* ---------------------------------------------------------------- records
\* `todo_${timestamp}_${randomPart}`
generateTodoId(timestamp, randomPart) == <<"todo", timestamp, randomPart>>

\* Math.random().toString(36).substring(2, 7)
RandomParts == {"k3x9q"}
Times == 0..MaxTime

\* an id no todo ever has
NonexistentId == <<"nonexistent", 0, "">>

\* the ids the operations are called with
AllIds ==
  {NonexistentId} \cup {generateTodoId(t, r) : t \in Times, r \in RandomParts}

\* the values a clock read can give when the previous read gave t
ClockReadings(t) == {u \in t..(t + 1) : u <= MaxTime}

\* `new Date()` and the `Date.now()` of generateTodoId, a few instructions
\* apart, are one reading of the clock
createTodo(input, nowDate, randomPart) ==
  [ id        |-> generateTodoId(nowDate, randomPart),
    text      |-> Trim(input.text),
    completed |-> IF "completed" \in DOMAIN input THEN input.completed ELSE FALSE,
    createdAt |-> nowDate,
    updatedAt |-> nowDate ]

\* updateTodo without `updatedAt: new Date()`
updateTodoKeepsDate(existingTodo, updates, nowDate) ==
  [ id        |-> existingTodo.id,
    text      |-> IF "text" \in DOMAIN updates
                    THEN Trim(updates.text) ELSE existingTodo.text,
    completed |-> IF "completed" \in DOMAIN updates
                    THEN updates.completed ELSE existingTodo.completed,
    createdAt |-> existingTodo.createdAt,
    updatedAt |-> existingTodo.updatedAt ]

\* an update that stamps createdAt as well
updateTodoRestampsCreation(existingTodo, updates, nowDate) ==
  [ id |-> existingTodo.id,
    text |-> IF "text" \in DOMAIN updates THEN Trim(updates.text) ELSE existingTodo.text,
    completed |-> IF "completed" \in DOMAIN updates
                    THEN updates.completed ELSE existingTodo.completed,
    createdAt |-> nowDate,
    updatedAt |-> nowDate ]

\* an update that takes completed from the updates only
updateTodoDropsCompleted(existingTodo, updates, nowDate) ==
  [ id |-> existingTodo.id,
    text |-> IF "text" \in DOMAIN updates THEN Trim(updates.text) ELSE existingTodo.text,
    completed |-> IF "completed" \in DOMAIN updates THEN updates.completed ELSE FALSE,
    createdAt |-> existingTodo.createdAt,
    updatedAt |-> nowDate ]

updateTodo(existingTodo, updates, nowDate) ==
  [ id        |-> existingTodo.id,
    text      |-> IF "text" \in DOMAIN updates
                    THEN Trim(updates.text) ELSE existingTodo.text,
    completed |-> IF "completed" \in DOMAIN updates
                    THEN updates.completed ELSE existingTodo.completed,
    createdAt |-> existingTodo.createdAt,
    updatedAt |-> nowDate ]

\* todos.find(todo => todo.id === id): index of the first match, 0 if none
findTodoIndex(list, id) ==
  IF \E i \in 1..Len(list) : list[i].id = id
    THEN CHOOSE i \in 1..Len(list) :
           /\ list[i].id = id
           /\ \A j \in 1..(i - 1) : list[j].id /= id
    ELSE 0

Undefined == [id |-> NullId]

findTodoById(list, id) ==
  IF findTodoIndex(list, id) = 0 THEN Undefined ELSE list[findTodoIndex(list, id)]


\* ------------------------------------------------------------------ state
VARIABLES
  todos,            \* useState<Todo[]>(initialTodos)
  inputText,        \* useState<string>('')
  validationError,  \* useState<string | null>(null)
  isLoading,        \* useState<boolean>(false)
  editState,        \* useState<EditState>({isEditing, editingId, editText})
  validationConfig, \* config.validationConfig, fixed at construction
  now,              \* the last value read from the system clock
  lastCall,         \* the last operation invoked: arguments, result, callbacks
  rendered,         \* the state the callbacks of the last render captured
  utilCall,         \* the last call of a helper of todoUtils.ts made directly
  notification,     \* TodoApp: useState<{type, message} | null>(null)
  timeouts,         \* TodoApp: the setTimeout callbacks not run yet
  alert             \* the AlertMessage instance on the page, if any

storeVars ==
  <<todos, inputText, validationError, isLoading, editState,
    validationConfig, lastCall>>

vars ==
  <<todos, inputText, validationError, isLoading, editState,
    validationConfig, now, lastCall, rendered, utilCall, notification,
    timeouts, alert>>

IdleEditState == [isEditing |-> FALSE, editingId |-> NullId, editText |-> <<>>]

\* config.initialTodos, by default []
initialTodos == <<>>

\* what one invocation did: the operation, its id and text arguments, the
\* state it was invoked in, the value it returned and the callbacks it
\* invoked, in order
Call(op, id, text, ret, callbacks) ==
  [ op |-> op, id |-> id, text |-> text,
    before |-> [todos |-> todos, inputText |-> inputText,
                validationError |-> validationError, editState |-> editState,
                now |-> now],
    ret |-> ret, callbacks |-> callbacks ]

onError(message) == [cb |-> "onError", message |-> message, text |-> <<>>]
onSuccess(message, text) == [cb |-> "onSuccess", message |-> message, text |-> text]

\* a || b on messages
OrElse(a, b) == IF a = Null \/ a = "" THEN b ELSE a

\* no AlertMessage is mounted
\* useState(null) of TodoApp: no notification
NoNotification == [type |-> "none", serial |-> 0, raisedAt |-> 0]

NoAlert == [mounted |-> FALSE]

\* the page as it is mounted
PageInit ==
  /\ todos = initialTodos
  /\ inputText = <<>>
  /\ validationError = Null
  /\ isLoading = FALSE
  /\ editState = IdleEditState
  /\ validationConfig \in ValidationConfigs
  /\ now = 0
  /\ lastCall = [ op |-> "init", id |-> NullId, text |-> <<>>,
                  before |-> [todos |-> initialTodos, inputText |-> <<>>,
                              validationError |-> Null,
                              editState |-> IdleEditState, now |-> 0],
                  ret |-> "void", callbacks |-> <<>> ]
  /\ rendered = [todos |-> initialTodos, inputText |-> <<>>, isLoading |-> FALSE]
  /\ notification = NoNotification
  /\ timeouts = {}
  /\ alert = NoAlert

Init ==
  /\ PageInit
  /\ utilCall = [fn |-> "none"]

\* validateInput() with no argument: validates the input buffer
validateInput(text) ==
  validateTodoText(sanitizeTodoText(text), validationConfig)

\* [newTodo, ...prevTodos]
prependTodo(prevTodos, newTodo) == <<newTodo>> \o prevTodos

\* setTodos(prevTodos => [...prevTodos, newTodo])
appendTodo(prevTodos, newTodo) == Append(prevTodos, newTodo)

\* prevTodos.filter(todo => todo.id === id)
keepOnlyTodo(prevTodos, id) == SelectSeq(prevTodos, LAMBDA todo : todo.id = id)

\* removes the first todo with the id only
RECURSIVE removeFirstTodo(_, _)
removeFirstTodo(prevTodos, id) ==
  IF prevTodos = <<>> THEN <<>>
  ELSE IF Head(prevTodos).id = id THEN Tail(prevTodos)
  ELSE <<Head(prevTodos)>> \o removeFirstTodo(Tail(prevTodos), id)

\* prevTodos.filter(todo => todo.id !== id)
removeTodo(prevTodos, id) == SelectSeq(prevTodos, LAMBDA todo : todo.id /= id)

\* the clock values read by the updateTodo calls of one prevTodos.map(...):
\* only the todos at the indices in M are rebuilt, each reading the clock
ClockRuns(list, M, start) ==
  { ts \in [1..Len(list) -> Times] :
      \A i \in 1..Len(list) :
        LET before == IF i = 1 THEN start ELSE ts[i - 1] IN
        ts[i] \in (IF i \in M THEN ClockReadings(before) ELSE {before}) }

LastReading(ts, start) == IF Len(ts) = 0 THEN start ELSE ts[Len(ts)]

\* a live validation that does not skip a blank text
handleSetInputTextValidatesBlank(text) ==
  /\ inputText' = text
  /\ validationError' =
       LET validation == validateTodoText(sanitizeTodoText(text), validationConfig)
       IN IF validation.isValid
            THEN Null ELSE OrElse(validation.errorMessage, Null)
  /\ lastCall' = Call("setInputText", NullId, text, "void", <<>>)
  /\ UNCHANGED <<todos, isLoading, editState, validationConfig, now>>

\* ------------------------------------------------------------- operations
handleSetInputText(text) ==
  /\ inputText' = text
  /\ validationError' =
       IF Len(Trim(text)) > 0
         THEN LET validation ==
                    validateTodoText(sanitizeTodoText(text), validationConfig)
              IN IF validation.isValid
                   THEN Null ELSE OrElse(validation.errorMessage, Null)
         ELSE Null
  /\ lastCall' = Call("setInputText", NullId, text, "void", <<>>)
  /\ UNCHANGED <<todos, isLoading, editState, validationConfig, now>>

\* addTodo with the random part of the id drawn from randomParts
addTodoWith(op, randomParts) ==
  LET validation == validateInput(rendered.inputText) IN
  IF ~validation.isValid
    THEN LET message == OrElse(validation.errorMessage, "Erreur de validation") IN
         /\ validationError' = message
         /\ lastCall' = Call(op, NullId, <<>>, "false", <<onError(message)>>)
         /\ UNCHANGED <<todos, inputText, isLoading, editState, validationConfig, now>>
    ELSE /\ Len(todos) < MaxTodos
         /\ \E nowDate \in ClockReadings(now), randomPart \in randomParts :
              LET sanitizedText == sanitizeTodoText(rendered.inputText)
                  newTodo == createTodo([text |-> sanitizedText], nowDate, randomPart)
              IN /\ todos' = appendTodo(todos, newTodo)
                 /\ now' = nowDate
                 /\ lastCall' = Call(op, NullId, <<>>, "true",
                      <<onSuccess("Tache ajoutee avec succes", sanitizedText)>>)
         /\ inputText' = <<>>
         /\ validationError' = Null
         /\ UNCHANGED <<isLoading, editState, validationConfig>>

addTodoAs(op) == addTodoWith(op, RandomParts)

addTodo == addTodoAs("addTodo")

deleteTodo(id) ==
  LET todoToDelete == findTodoById(todos, id) IN
  IF todoToDelete = Undefined
    THEN /\ lastCall' = Call("deleteTodo", id, <<>>, "false",
                             <<onError("Tache introuvable")>>)
         /\ UNCHANGED <<todos, inputText, validationError, isLoading, editState,
                        validationConfig, now>>
    ELSE /\ todos' = removeTodo(todos, id)
         /\ editState' = IF editState.editingId = id THEN IdleEditState ELSE editState
         /\ lastCall' = Call("deleteTodo", id, <<>>, "true",
              <<onSuccess("Tache supprimee avec succes", todoToDelete.text)>>)
         /\ UNCHANGED <<inputText, validationError, isLoading, validationConfig, now>>

\* a toggle that sets the flag instead of inverting it
toggleTodosSetsFlag(prevTodos, id, ts) ==
  [i \in 1..Len(prevTodos) |->
     IF prevTodos[i].id = id
       THEN updateTodo(prevTodos[i], [completed |-> TRUE], ts[i])
       ELSE prevTodos[i]]

\* prevTodos.map(todo => todo.id === id
\*   ? updateTodo(todo, { completed: !todo.completed }) : todo)
toggleTodos(prevTodos, id, ts) ==
  [i \in 1..Len(prevTodos) |->
     IF prevTodos[i].id = id
       THEN updateTodo(prevTodos[i], [completed |-> ~prevTodos[i].completed], ts[i])
       ELSE prevTodos[i]]

\* toggleTodo clearing the validation error before it looks the id up
toggleTodoClearsError(id) ==
  LET todoToToggle == findTodoById(todos, id) IN
  IF todoToToggle = Undefined
    THEN /\ validationError' = Null
         /\ lastCall' = Call("toggleTodo", id, <<>>, "false",
                             <<onError("Tache introuvable")>>)
         /\ UNCHANGED <<todos, inputText, isLoading, editState,
                        validationConfig, now>>
    ELSE /\ \E ts \in ClockRuns(todos, {i \in 1..Len(todos) : todos[i].id = id}, now) :
              /\ todos' = toggleTodos(todos, id, ts)
              /\ now' = LastReading(ts, now)
         /\ lastCall' = Call("toggleTodo", id, <<>>, "true",
              <<onSuccess(IF ~todoToToggle.completed
                            THEN "Tache marquee comme terminee"
                            ELSE "Tache marquee comme en cours",
                          todoToToggle.text)>>)
         /\ UNCHANGED <<inputText, validationError, isLoading, editState,
                        validationConfig>>

toggleTodo(id) ==
  LET todoToToggle == findTodoById(todos, id) IN
  IF todoToToggle = Undefined
    THEN /\ lastCall' = Call("toggleTodo", id, <<>>, "false",
                             <<onError("Tache introuvable")>>)
         /\ UNCHANGED <<todos, inputText, validationError, isLoading, editState,
                        validationConfig, now>>
    ELSE /\ \E ts \in ClockRuns(todos, {i \in 1..Len(todos) : todos[i].id = id}, now) :
              /\ todos' = toggleTodos(todos, id, ts)
              /\ now' = LastReading(ts, now)
         /\ lastCall' = Call("toggleTodo", id, <<>>, "true",
              <<onSuccess(IF ~todoToToggle.completed
                            THEN "Tache marquee comme terminee"
                            ELSE "Tache marquee comme en cours",
                          todoToToggle.text)>>)
         /\ UNCHANGED <<inputText, validationError, isLoading, editState,
                        validationConfig>>

\* startEdit refusing to switch while another edit is active
startEditNoSwitch(id) ==
  LET todoToEdit == findTodoById(todos, id) IN
  IF todoToEdit = Undefined \/ editState.isEditing
    THEN /\ lastCall' = Call("startEdit", id, <<>>, "false",
                             <<onError("Tache introuvable")>>)
         /\ UNCHANGED <<todos, inputText, validationError, isLoading, editState,
                        validationConfig, now>>
    ELSE /\ editState' = [isEditing |-> TRUE, editingId |-> id,
                          editText |-> todoToEdit.text]
         /\ inputText' = todoToEdit.text
         /\ validationError' = Null
         /\ lastCall' = Call("startEdit", id, <<>>, "true", <<>>)
         /\ UNCHANGED <<todos, isLoading, validationConfig, now>>

startEdit(id) ==
  LET todoToEdit == findTodoById(todos, id) IN
  IF todoToEdit = Undefined
    THEN /\ lastCall' = Call("startEdit", id, <<>>, "false",
                             <<onError("Tache introuvable")>>)
         /\ UNCHANGED <<todos, inputText, validationError, isLoading, editState,
                        validationConfig, now>>
    ELSE /\ editState' = [isEditing |-> TRUE, editingId |-> id,
                          editText |-> todoToEdit.text]
         /\ inputText' = todoToEdit.text
         /\ validationError' = Null
         /\ lastCall' = Call("startEdit", id, <<>>, "true", <<>>)
         /\ UNCHANGED <<todos, isLoading, validationConfig, now>>

\* a save that takes the edited todos out and puts them back at the end
saveEditTodosMovesLast(prevTodos, editingId, sanitizedText, ts) ==
  LET mapped == [i \in 1..Len(prevTodos) |->
                   IF prevTodos[i].id = editingId
                     THEN updateTodo(prevTodos[i], [text |-> sanitizedText], ts[i])
                     ELSE prevTodos[i]]
  IN SelectSeq(mapped, LAMBDA todo : todo.id /= editingId)
       \o SelectSeq(mapped, LAMBDA todo : todo.id = editingId)

\* prevTodos.map(todo => todo.id === editState.editingId
\*   ? updateTodo(todo, { text: sanitizedText }) : todo)
saveEditTodos(prevTodos, editingId, sanitizedText, ts) ==
  [i \in 1..Len(prevTodos) |->
     IF prevTodos[i].id = editingId
       THEN updateTodo(prevTodos[i], [text |-> sanitizedText], ts[i])
       ELSE prevTodos[i]]

saveEditAs(op) ==
  IF ~editState.isEditing \/ editState.editingId = NullId
    THEN /\ lastCall' = Call(op, NullId, <<>>, "false",
                             <<onError("Aucune edition en cours")>>)
         /\ UNCHANGED <<todos, inputText, validationError, isLoading, editState,
                        validationConfig, now>>
    ELSE
      LET validation == validateInput(inputText) IN
      IF ~validation.isValid
        THEN LET message == OrElse(validation.errorMessage, "Erreur de validation") IN
             /\ validationError' = message
             /\ lastCall' = Call(op, NullId, <<>>, "false", <<onError(message)>>)
             /\ UNCHANGED <<todos, inputText, isLoading, editState,
                            validationConfig, now>>
        ELSE LET sanitizedText == sanitizeTodoText(inputText) IN
             /\ \E ts \in ClockRuns(todos,
                     {i \in 1..Len(todos) : todos[i].id = editState.editingId}, now) :
                  /\ todos' = saveEditTodos(todos, editState.editingId,
                                             sanitizedText, ts)
                  /\ now' = LastReading(ts, now)
             /\ editState' = IdleEditState
             /\ inputText' = <<>>
             /\ validationError' = Null
             /\ lastCall' = Call(op, NullId, <<>>, "true",
                  <<onSuccess("Tache modifiee", sanitizedText)>>)
             /\ UNCHANGED <<isLoading, validationConfig>>

saveEdit == saveEditAs("saveEdit")

\* a cancel that reports itself on top of what its caller reports
cancelEditNotifies(op, callbacks) ==
  /\ editState' = IdleEditState
  /\ inputText' = <<>>
  /\ validationError' = Null
  /\ lastCall' = Call(op, NullId, <<>>, "void",
       <<onSuccess("Edition annulee", <<>>)>> \o callbacks)

\* a cancel that leaves the typed text in the input buffer
cancelEditKeepsInput(op, callbacks) ==
  /\ editState' = IdleEditState
  /\ inputText' = inputText
  /\ validationError' = Null
  /\ lastCall' = Call(op, NullId, <<>>, "void", callbacks)

cancelEditAs(op, callbacks) ==
  /\ editState' = IdleEditState
  /\ inputText' = <<>>
  /\ validationError' = Null
  /\ lastCall' = Call(op, NullId, <<>>, "void", callbacks)

cancelEdit ==
  /\ cancelEditAs("cancelEdit", <<>>)
  /\ UNCHANGED <<todos, isLoading, validationConfig, now>>

\* a submit that adds whatever the edit state
handleSubmitAlwaysAdds == addTodoAs("handleSubmit")

handleSubmit ==
  IF editState.isEditing
    THEN saveEditAs("handleSubmit")
    ELSE addTodoAs("handleSubmit")

\* setInputText(''); setValidationError(null); cancelEdit()
resetFormAs(op, callbacks) == cancelEditAs(op, callbacks)

resetForm ==
  /\ resetFormAs("resetForm", <<>>)
  /\ UNCHANGED <<todos, isLoading, validationConfig, now>>

\* a clearAllTodos that empties the collection without resetting the form
clearAllTodosKeepsForm ==
  /\ todos' = <<>>
  /\ lastCall' = Call("clearAllTodos", NullId, <<>>, "void",
       <<onSuccess("Toutes les taches ont ete supprimees", <<>>)>>)
  /\ UNCHANGED <<inputText, validationError, isLoading, editState,
                 validationConfig, now>>

clearAllTodos ==
  /\ todos' = <<>>
  /\ resetFormAs("clearAllTodos",
       <<onSuccess("Toutes les taches ont ete supprimees", <<>>)>>)
  /\ UNCHANGED <<isLoading, validationConfig, now>>

\* a bulk operation that rebuilds every todo
markAllTodosRebuildsAll(prevTodos, completed, ts) ==
  [i \in 1..Len(prevTodos) |->
     updateTodo(prevTodos[i], [completed |-> completed], ts[i])]

\* prevTodos.map(todo => todo.completed ? todo
\*   : updateTodo(todo, { completed: true })), and its mirror image
markAllTodos(prevTodos, completed, ts) ==
  [i \in 1..Len(prevTodos) |->
     IF prevTodos[i].completed = completed
       THEN prevTodos[i]
       ELSE updateTodo(prevTodos[i], [completed |-> completed], ts[i])]

\* a bulk operation that also leaves edit mode
markAllResetsEdit(op, completed, message) ==
  /\ \E ts \in ClockRuns(todos,
          {i \in 1..Len(todos) : todos[i].completed /= completed}, now) :
       /\ todos' = markAllTodos(todos, completed, ts)
       /\ now' = LastReading(ts, now)
  /\ editState' = IdleEditState
  /\ lastCall' = Call(op, NullId, <<>>, "void", <<onSuccess(message, <<>>)>>)
  /\ UNCHANGED <<inputText, validationError, isLoading, validationConfig>>

markAll(op, completed, message) ==
  /\ \E ts \in ClockRuns(todos,
          {i \in 1..Len(todos) : todos[i].completed /= completed}, now) :
       /\ todos' = markAllTodos(todos, completed, ts)
       /\ now' = LastReading(ts, now)
  /\ lastCall' = Call(op, NullId, <<>>, "void", <<onSuccess(message, <<>>)>>)
  /\ UNCHANGED <<inputText, validationError, isLoading, editState, validationConfig>>

markAllCompleted ==
  markAll("markAllCompleted", TRUE,
          "Toutes les taches ont ete marquees comme terminees")

\* markAllPending copied from markAllCompleted with the flag left as it was
markAllPendingCompletes ==
  markAll("markAllPending", TRUE,
          "Toutes les taches ont ete marquees comme en cours")

markAllPending ==
  markAll("markAllPending", FALSE,
          "Toutes les taches ont ete marquees comme en cours")

\* the component renders again with the state the handlers have set, and its
\* callbacks capture that state
render ==
  rendered' = [todos |-> todos', inputText |-> inputText', isLoading |-> isLoading']

\* a handler of the store invoked as one UI event: the render follows before
\* the next event, and nothing outside the store is involved
afterHandler ==
  /\ render
  /\ UNCHANGED <<utilCall, notification, timeouts, alert>>

Next ==
  \/ (\E text \in InputTexts : handleSetInputText(text)) /\ afterHandler
  \/ addTodo /\ afterHandler
  \/ (\E id \in AllIds : deleteTodo(id)) /\ afterHandler
  \/ (\E id \in AllIds : toggleTodo(id)) /\ afterHandler
  \/ (\E id \in AllIds : startEdit(id)) /\ afterHandler
  \/ saveEdit /\ afterHandler
  \/ cancelEdit /\ afterHandler
  \/ handleSubmit /\ afterHandler
  \/ resetForm /\ afterHandler
  \/ clearAllTodos /\ afterHandler
  \/ markAllCompleted /\ afterHandler
  \/ markAllPending /\ afterHandler

Spec == Init /\ [][Next]_vars

\* The operations that create and remove tasks, with two values for the
\* random part of a generated id: the store as far as the ids in the
\* collection are concerned (no other operation writes an id).
TwoRandomParts == RandomParts \cup {"p0f2m"}

IdsWith(randomParts) ==
  {NonexistentId} \cup {generateTodoId(t, r) : t \in Times, r \in randomParts}

NextIds ==
  \/ (\E text \in InputTexts : handleSetInputText(text)) /\ afterHandler
  \/ addTodoWith("addTodo", TwoRandomParts) /\ afterHandler
  \/ (\E id \in IdsWith(TwoRandomParts) : deleteTodo(id)) /\ afterHandler
  \/ clearAllTodos /\ afterHandler

SpecIds == Init /\ [][NextIds]_vars

\* ------------------------------------------ handlers called between renders
\* The store when a caller invokes setInputText and addTodo without waiting
\* for the render: the state setters queue their updates, the callbacks in
\* the caller's hands are those of the last render, and the render is a step
\* of its own.
beforeRender == UNCHANGED <<rendered, utilCall, notification, timeouts, alert>>

rerender ==
  /\ UNCHANGED <<storeVars, now, utilCall, notification, timeouts, alert>>
  /\ render

NextRender ==
  \/ (\E text \in InputTexts : handleSetInputText(text)) /\ beforeRender
  \/ addTodo /\ beforeRender
  \/ rerender

SpecRender == Init /\ [][NextRender]_vars

\* ------------------------------------------------------------ AlertMessage
\* One AlertMessage instance whose parent keeps it mounted after onClose.
\* Time is counted in seconds; the interval callback, due every 50 ms, has
\* run whenever a second has gone by.  An update made in an event handler is
\* rendered, and the effect run again, before the next event.
MaxAppTime == 6
MaxCloses == 2

\* autoClose absent, and the 3000 ms TodoNotifications gives a success
AlertProps ==
  [autoClose : {0, 3}, persistent : BOOLEAN, animated : BOOLEAN,
   withCloseButton : BOOLEAN]

NoTimer == [running |-> FALSE, startTime |-> 0]

\* the body of the auto-close effect: setInterval when autoClose is set and
\* the alert is opened and not paused
startTimer(a, startTime) ==
  IF a.props.autoClose > 0 /\ a.opened /\ ~a.isPaused
    THEN [running |-> TRUE, startTime |-> startTime]
    ELSE NoTimer

\* useEffect(..., [autoClose, onClose, opened, isPaused]) on a render that
\* turns prev into next: with a dependency changed the cleanup clears the
\* interval and the body runs again
autoCloseEffect(prev, next, startTime) ==
  IF <<prev.props.autoClose, prev.opened, prev.isPaused>>
       = <<next.props.autoClose, next.opened, next.isPaused>>
    THEN next
    ELSE [next EXCEPT !.timer = startTimer(next, startTime)]

\* useState(true), useState(100), useState(false), then the effect; progress
\* is the pair <<p, q>> standing for the number p / q
mountAlert(props, startTime) ==
  LET a == [ mounted |-> TRUE, props |-> props, opened |-> TRUE,
             progress |-> <<100, 1>>, isPaused |-> FALSE, hovered |-> FALSE,
             present |-> TRUE, timer |-> NoTimer, onCloseCalls |-> 0,
             closedBy |-> "nobody" ]
  IN [a EXCEPT !.timer = startTimer(a, startTime)]

\* opened became false: without animation the alert renders null, with it
\* AnimatePresence keeps the element until the exit animation is over
closeAlert(a, by) ==
  [a EXCEPT !.opened = FALSE,
            !.onCloseCalls = @ + 1,
            !.closedBy = by,
            !.present = a.props.animated]

\* the callback given to setInterval
intervalCallback(a, clock) ==
  LET elapsed == clock - a.timer.startTime
      remaining == IF a.props.autoClose - elapsed > 0
                     THEN a.props.autoClose - elapsed ELSE 0
      shown == [a EXCEPT !.progress = <<remaining * 100, a.props.autoClose>>]
  IN IF remaining <= 0
       THEN autoCloseEffect(shown,
              [closeAlert(shown, "timer") EXCEPT !.timer = NoTimer], clock)
       ELSE shown

alertUnchanged == UNCHANGED <<storeVars, rendered, utilCall, notification, timeouts>>

InitAlert ==
  /\ todos = initialTodos
  /\ inputText = <<>>
  /\ validationError = Null
  /\ isLoading = FALSE
  /\ editState = IdleEditState
  /\ validationConfig \in ValidationConfigs
  /\ now = 0
  /\ lastCall = [op |-> "init"]
  /\ rendered = [todos |-> initialTodos, inputText |-> <<>>, isLoading |-> FALSE]
  /\ utilCall = [fn |-> "none"]
  /\ notification = NoNotification
  /\ timeouts = {}
  /\ \E props \in AlertProps : alert = mountAlert(props, 0)

\* a second goes by, and the interval callback runs if the interval is set
tick ==
  /\ now < MaxAppTime
  /\ now' = now + 1
  /\ alert' = IF alert.mounted /\ alert.timer.running
                THEN intervalCallback(alert, now + 1) ELSE alert
  /\ alertUnchanged

\* a click on the close button, there as long as the element is
handleClose ==
  /\ alert.mounted
  /\ alert.present
  /\ alert.props.withCloseButton
  /\ alert.onCloseCalls < MaxCloses
  /\ alert' = autoCloseEffect(alert, closeAlert(alert, "button"), now)
  /\ UNCHANGED now
  /\ alertUnchanged

handleMouseEnter ==
  /\ alert.mounted
  /\ alert.present
  /\ ~alert.hovered
  /\ alert' = autoCloseEffect(alert,
       [alert EXCEPT !.hovered = TRUE,
                     !.isPaused = IF alert.props.persistent /\ alert.props.autoClose > 0
                                    THEN TRUE ELSE @], now)
  /\ UNCHANGED now
  /\ alertUnchanged

handleMouseLeave ==
  /\ alert.mounted
  /\ alert.present
  /\ alert.hovered
  /\ alert' = autoCloseEffect(alert,
       [alert EXCEPT !.hovered = FALSE,
                     !.isPaused = IF alert.props.persistent /\ alert.props.autoClose > 0
                                    THEN FALSE ELSE @], now)
  /\ UNCHANGED now
  /\ alertUnchanged

\* the exit animation of AnimatePresence is over: the element is removed
exitComplete ==
  /\ alert.mounted
  /\ alert.present
  /\ ~alert.opened
  /\ alert' = [alert EXCEPT !.present = FALSE, !.hovered = FALSE]
  /\ UNCHANGED now
  /\ alertUnchanged

\* the parent stops rendering the alert: the cleanup of the effect runs
unmountAlert ==
  /\ alert.mounted
  /\ alert' = [alert EXCEPT !.mounted = FALSE, !.present = FALSE,
                            !.hovered = FALSE, !.timer = NoTimer]
  /\ UNCHANGED now
  /\ alertUnchanged

NextAlert ==
  \/ tick
  \/ handleClose
  \/ handleMouseEnter
  \/ handleMouseLeave
  \/ exitComplete
  \/ unmountAlert

SpecAlert == InitAlert /\ [][NextAlert]_vars

\* ----------------------------------------------------------------- TodoApp
\* The notification of TodoApp, the timeouts its callbacks start and the
\* AlertMessage that TodoNotifications renders for it.  Time is counted in
\* seconds.  The message of a notification is displayed and never read; a
\* notification carries instead the number of the call that raised it and
\* the time of that call, which no code reads.
MaxNotifications == 3

NotificationTypes == {"success", "error"}

\* setTimeout(() => setNotification(null), 5000) in onError, 3000 in onSuccess
Duration(type) == IF type = "error" THEN 5 ELSE 3

\* the props TodoNotifications gives to AlertMessage
notificationProps(type) ==
  [autoClose |-> Duration(type), persistent |-> FALSE, animated |-> TRUE,
   withCloseButton |-> TRUE]

appUnchanged ==
  UNCHANGED <<todos, inputText, validationError, isLoading, editState,
              validationConfig, rendered, utilCall>>

\* <TodoNotifications notification={n} />: null without a notification, else
\* an AlertMessage, the same instance as long as there is a notification
renderNotifications(n) ==
  IF n = NoNotification THEN NoAlert
  ELSE IF ~alert.mounted THEN mountAlert(notificationProps(n.type), now)
  ELSE autoCloseEffect(alert, [alert EXCEPT !.props = notificationProps(n.type)], now)

\* onSuccess(message) and onError(error): setNotification, then a timeout whose
\* id is dropped; a timeout is kept in the set once it has run, as not pending
raise(type) ==
  /\ Cardinality(timeouts) < MaxNotifications
  /\ LET n == [type |-> type, serial |-> Cardinality(timeouts) + 1, raisedAt |-> now]
     IN /\ notification' = n
        /\ timeouts' = timeouts \cup
             {[serial |-> n.serial, due |-> now + Duration(type),
               pending |-> TRUE, closed |-> FALSE]}
        /\ alert' = renderNotifications(n)
        /\ lastCall' = [op |-> type, before |-> notification]
  /\ UNCHANGED now
  /\ appUnchanged

\* the onSuccess callback of TodoApp
notifySuccess == raise("success")

\* the onError callback of TodoApp
notifyError == raise("error")

\* the callback of a timeout: setNotification(null)
timeoutFires ==
  /\ \E t \in timeouts :
       /\ t.pending
       /\ t.due <= now
       /\ timeouts' = (timeouts \ {t}) \cup {[t EXCEPT !.pending = FALSE]}
       /\ lastCall' = [op |-> "timeout", timer |-> t, before |-> notification]
  /\ notification' = NoNotification
  /\ alert' = renderNotifications(NoNotification)
  /\ UNCHANGED now
  /\ appUnchanged

\* closeNotification, the onClose of the alert; the timeout of the
\* notification it closes is marked, a mark that no code reads
closeNotification(by) ==
  /\ notification' = NoNotification
  /\ timeouts' = IF by = "button"
                   THEN {IF t.serial = notification.serial
                           THEN [t EXCEPT !.closed = TRUE] ELSE t : t \in timeouts}
                   ELSE timeouts
  /\ alert' = renderNotifications(NoNotification)
  /\ lastCall' = [op |-> by, before |-> notification]
  /\ UNCHANGED now
  /\ appUnchanged

\* a click on the close button of the alert: handleClose, then onClose
closeButton ==
  /\ notification # NoNotification
  /\ alert.mounted
  /\ alert.props.withCloseButton
  /\ closeNotification("button")

countdownDue(a, clock) ==
  a.mounted /\ a.timer.running /\ clock - a.timer.startTime >= a.props.autoClose

\* the interval callback of the alert finds nothing remaining: onClose
countdownCloses ==
  /\ notification # NoNotification
  /\ countdownDue(alert, now)
  /\ intervalCallback(alert, now).onCloseCalls = alert.onCloseCalls + 1
  /\ closeNotification("countdown")

\* a second goes by once every callback that is due has run; the interval
\* callback of the alert updates the progress
timePasses ==
  /\ now < MaxAppTime
  /\ \A t \in timeouts : t.pending => t.due > now
  /\ ~countdownDue(alert, now)
  /\ now' = now + 1
  /\ alert' = IF alert.mounted /\ alert.timer.running /\ ~countdownDue(alert, now + 1)
                THEN intervalCallback(alert, now + 1) ELSE alert
  /\ lastCall' = [op |-> "timePasses", before |-> notification]
  /\ UNCHANGED <<notification, timeouts>>
  /\ appUnchanged

NextApp ==
  \/ notifySuccess
  \/ notifyError
  \/ timeoutFires
  \/ closeButton
  \/ countdownCloses
  \/ timePasses

SpecApp == Init /\ [][NextApp]_vars

\* ------------------------------------------------- the helpers on their own
\* The exported helpers of todoUtils.ts called directly, with any text and
\* any configuration, as a caller other than the store may do.
MaxTextLen == 4
UtilChars == {"a"} \cup WhiteSpace

UtilTexts == UNION {[1..n -> UtilChars] : n \in 0..MaxTextLen}

UtilConfigs ==
  {DEFAULT_VALIDATION_CONFIG} \cup
  [minLength : 0..2, maxLength : 2..3, allowEmpty : BOOLEAN]

\* an optional argument left out
Omitted == [omitted |-> TRUE]

\* the calls made, before they return
ValidateCalls ==
  {[fn |-> "validateTodoText", text |-> text, config |-> config, done |-> FALSE] :
     text \in UtilTexts, config \in UtilConfigs \cup {Omitted}}

\* createTodo({text}) and createTodo({text, completed})
CreateCalls ==
  {[fn |-> "createTodo", input |-> input, done |-> FALSE] :
     input \in [text : UtilTexts] \cup [text : UtilTexts, completed : BOOLEAN]}

\* the todos handed to updateTodo
UtilTodos ==
  [ id : {generateTodoId(0, r) : r \in RandomParts},
    text : {<<"a">>, <<"a", " ", "a">>},
    completed : BOOLEAN,
    createdAt : {0},
    updatedAt : Times ]

\* {}, {text}, {completed} and {text, completed}
UtilUpdates ==
  {<<>>} \cup [text : UtilTexts] \cup [completed : BOOLEAN]
         \cup [text : UtilTexts, completed : BOOLEAN]

UpdateCalls ==
  {[fn |-> "updateTodo", existingTodo |-> existingTodo, updates |-> updates,
    done |-> FALSE] : existingTodo \in UtilTodos, updates \in UtilUpdates}

SanitizeCalls ==
  {[fn |-> "sanitizeTodoText", text |-> text, done |-> FALSE] : text \in UtilTexts}

UtilCalls == ValidateCalls \cup CreateCalls \cup UpdateCalls \cup SanitizeCalls

InitUtils ==
  /\ PageInit
  /\ utilCall \in UtilCalls

Return(ret) ==
  /\ ~utilCall.done
  /\ utilCall' = [fn |-> utilCall.fn, args |-> utilCall, done |-> TRUE, ret |-> ret]
  /\ UNCHANGED <<storeVars, now, rendered, notification, timeouts, alert>>

\* validateTodoText(text, config), and validateTodoText(text) where config
\* takes its default value
callValidateTodoText ==
  /\ utilCall.fn = "validateTodoText"
  /\ Return(validateTodoText(utilCall.text,
              IF utilCall.config = Omitted
                THEN DEFAULT_VALIDATION_CONFIG ELSE utilCall.config))

callCreateTodo ==
  /\ utilCall.fn = "createTodo"
  /\ \E nowDate \in Times, randomPart \in RandomParts :
       Return(createTodo(utilCall.input, nowDate, randomPart))

\* an update written into the object it was given
existingTodoUpdatedInPlace(existingTodo, updates, nowDate) ==
  updateTodo(existingTodo, updates, nowDate)

\* the object handed to updateTodo, after the call: `...existingTodo` copies
\* its fields into the new object and nothing is assigned to it
existingTodoAfterUpdate(existingTodo, updates, nowDate) == existingTodo

callUpdateTodo ==
  /\ utilCall.fn = "updateTodo"
  /\ ~utilCall.done
  /\ \E nowDate \in Times :
       utilCall' =
         [ fn |-> "updateTodo", args |-> utilCall, done |-> TRUE,
           ret |-> updateTodo(utilCall.existingTodo, utilCall.updates, nowDate),
           existingTodo |-> existingTodoAfterUpdate(utilCall.existingTodo,
                                                    utilCall.updates, nowDate),
           nowDate |-> nowDate ]
  /\ UNCHANGED <<storeVars, now, rendered, notification, timeouts, alert>>

callSanitizeTodoText ==
  /\ utilCall.fn = "sanitizeTodoText"
  /\ Return(sanitizeTodoText(utilCall.text))

NextUtils ==
  \/ callValidateTodoText
  \/ callCreateTodo
  \/ callUpdateTodo
  \/ callSanitizeTodoText

SpecUtils == InitUtils /\ [][NextUtils]_vars

\* ----------------------------------------------------------------- claims
Before == lastCall.before

Returned(ret) == lastCall.ret = ret

Invoked(cb) == \E i \in 1..Len(lastCall.callbacks) : lastCall.callbacks[i].cb = cb

\* the rules of the validation configuration, on the sanitized text
IsEmptyViolation(text) ==
  ~validationConfig.allowEmpty /\ Len(sanitizeTodoText(text)) = 0
IsTooShort(text) == Len(sanitizeTodoText(text)) < validationConfig.minLength
IsTooLong(text) == Len(sanitizeTodoText(text)) > validationConfig.maxLength
ViolatesConfig(text) == IsEmptyViolation(text) \/ IsTooShort(text) \/ IsTooLong(text)

\* C1: addTodo on an input buffer whose sanitized text is non-empty and within
\* the length bounds returns success and appends exactly one task, not
\* completed, whose text is the sanitized input; the tasks present before are
\* unchanged and in the same order.
C1_AddTodoAppends ==
  ( /\ lastCall.op = "addTodo"
    /\ Len(sanitizeTodoText(Before.inputText)) > 0
    /\ ~ViolatesConfig(Before.inputText) )
  => /\ Returned("true")
     /\ Len(todos) = Len(Before.todos) + 1
     /\ SubSeq(todos, 1, Len(todos) - 1) = Before.todos
     /\ todos[Len(todos)].completed = FALSE
     /\ todos[Len(todos)].text = sanitizeTodoText(Before.inputText)

\* a padded text with an inner run of white space was added after another task
C1_Witness ==
  /\ lastCall.op = "addTodo"
  /\ Returned("true")
  /\ Before.inputText = <<"a", "\t", " ", "a">>
  /\ Len(Before.todos) = 1
  /\ Len(todos) = 2
  /\ todos[2].text = <<"a", " ", "a">>

\* C2: addTodo on an input buffer that violates the validation configuration
\* returns failure, leaves the collection as it was, sets a non-empty
\* validation error and invokes the error callback.
C2_AddTodoRejects ==
  (lastCall.op = "addTodo" /\ ViolatesConfig(Before.inputText))
  => /\ Returned("false")
     /\ todos = Before.todos
     /\ validationError /= Null
     /\ validationError /= ""
     /\ Invoked("onError")

\* a too long text was rejected while the collection held a task
C2_Witness ==
  /\ lastCall.op = "addTodo"
  /\ Returned("false")
  /\ IsTooLong(Before.inputText)
  /\ Len(todos) = 1
  /\ validationError = TooLongMessage(validationConfig)

\* C3: editingId is non-null exactly when isEditing is true, and a non-null
\* editingId is the id of a task in the collection.
C3_EditingIdValid ==
  /\ (editState.editingId /= NullId) <=> editState.isEditing
  /\ editState.editingId /= NullId =>
       \E i \in 1..Len(todos) : todos[i].id = editState.editingId

\* a task was deleted while another one stays under edit
C3_Witness ==
  /\ lastCall.op = "deleteTodo"
  /\ Returned("true")
  /\ Before.editState.isEditing
  /\ editState.isEditing
  /\ \E i \in 1..Len(todos) : todos[i].id = editState.editingId


\* a handleSubmit made during an edit session is an invocation of saveEdit
IsSaveEdit ==
  \/ lastCall.op = "saveEdit"
  \/ lastCall.op = "handleSubmit" /\ Before.editState.isEditing

Present(list, id) == \E i \in 1..Len(list) : list[i].id = id

\* C4: the store starts in IDLE; isEditing becomes true only by a successful
\* startEdit, becomes false only by a successful saveEdit, by cancelEdit,
\* resetForm or clearAllTodos, or by deleteTodo of the task under edit; addTodo,
\* toggleTodo, the bulk operations, setInputText, deleteTodo of another task
\* and every failing operation leave isEditing and editingId unchanged.
C4_EditTransitions ==
  /\ lastCall.op = "init" => editState = IdleEditState
  /\ (~Before.editState.isEditing /\ editState.isEditing)
       => lastCall.op = "startEdit" /\ Returned("true")
  /\ (Before.editState.isEditing /\ ~editState.isEditing)
       => \/ IsSaveEdit /\ Returned("true")
          \/ lastCall.op \in {"cancelEdit", "resetForm", "clearAllTodos"}
          \/ /\ lastCall.op = "deleteTodo"
             /\ Returned("true")
             /\ lastCall.id = Before.editState.editingId
  /\ ( \/ lastCall.op \in {"addTodo", "toggleTodo", "markAllCompleted",
                          "markAllPending", "setInputText"}
       \/ lastCall.op = "deleteTodo" /\ lastCall.id /= Before.editState.editingId
       \/ Returned("false") )
       => /\ editState.isEditing = Before.editState.isEditing
          /\ editState.editingId = Before.editState.editingId

\* a bulk operation ran during an edit session, which is still active
C4_Witness ==
  /\ lastCall.op = "markAllCompleted"
  /\ Before.editState.isEditing
  /\ editState.isEditing
  /\ todos /= Before.todos

\* C5: saveEdit during an edit session with a valid input buffer returns
\* success, gives every task with the id under edit the sanitized input as
\* text and a clock reading of this call as updatedAt, leaves the other fields
\* and the other tasks unchanged, returns to IDLE, empties the input buffer
\* and clears the validation error.
C5_SaveEditApplies ==
  ( /\ lastCall.op = "saveEdit"
    /\ Before.editState.isEditing
    /\ ~ViolatesConfig(Before.inputText) )
  => /\ Returned("true")
     /\ Len(todos) = Len(Before.todos)
     /\ \A i \in 1..Len(Before.todos) :
          IF Before.todos[i].id = Before.editState.editingId
            THEN /\ todos[i].text = sanitizeTodoText(Before.inputText)
                 /\ todos[i].updatedAt >= Before.now
                 /\ todos[i].updatedAt <= now
                 /\ todos[i].id = Before.todos[i].id
                 /\ todos[i].completed = Before.todos[i].completed
                 /\ todos[i].createdAt = Before.todos[i].createdAt
            ELSE todos[i] = Before.todos[i]
     /\ editState = IdleEditState
     /\ inputText = <<>>
     /\ validationError = Null

\* the second of two tasks got a new text and a later updatedAt, the first
\* one is as before
C5_Witness ==
  /\ lastCall.op = "saveEdit"
  /\ Returned("true")
  /\ Len(todos) = 2
  /\ Before.editState.editingId = todos[2].id
  /\ todos[1] = Before.todos[1]
  /\ Before.todos[2].text = <<"a", "a">>
  /\ todos[2].text = <<"a", " ", "a">>
  /\ todos[2].updatedAt > Before.todos[2].updatedAt

\* C6: saveEdit during an edit session with an input buffer that fails
\* validation returns failure, sets the validation error, invokes the error
\* callback and leaves the collection, the edit state and the input buffer
\* as they were.
C6_SaveEditRejects ==
  ( /\ lastCall.op = "saveEdit"
    /\ Before.editState.isEditing
    /\ ViolatesConfig(Before.inputText) )
  => /\ Returned("false")
     /\ validationError /= Null
     /\ validationError /= ""
     /\ Invoked("onError")
     /\ todos = Before.todos
     /\ editState = Before.editState
     /\ editState.isEditing
     /\ inputText = Before.inputText

\* a too short text was rejected during an edit session
C6_Witness ==
  /\ lastCall.op = "saveEdit"
  /\ Returned("false")
  /\ Before.editState.isEditing
  /\ IsTooShort(Before.inputText)
  /\ ~IsEmptyViolation(Before.inputText)
  /\ validationError = TooShortMessage(validationConfig)
  /\ editState.isEditing

\* C7: after a successful deleteTodo of the task under edit the edit state is
\* IDLE and the input buffer is empty.
C7_DeleteEditedClearsInput ==
  ( /\ lastCall.op = "deleteTodo"
    /\ Returned("true")
    /\ lastCall.id = Before.editState.editingId )
  => /\ editState = IdleEditState
     /\ inputText = <<>>

\* the todos of a list without those of the given id, in the same order
RECURSIVE Others(_, _)
Others(list, id) ==
  IF list = <<>> THEN <<>>
  ELSE IF Head(list).id = id THEN Others(Tail(list), id)
  ELSE <<Head(list)>> \o Others(Tail(list), id)

\* C8: deleteTodo of an id present in the collection returns success, after
\* it findById is absent, the size went down by the number of tasks with
\* that id, and the other tasks are there unchanged and in the same order.
C8_DeleteRemoves ==
  (lastCall.op = "deleteTodo" /\ Present(Before.todos, lastCall.id))
  => /\ Returned("true")
     /\ findTodoById(todos, lastCall.id) = Undefined
     /\ ~Present(todos, lastCall.id)
     /\ Len(todos) = Len(Before.todos)
          - Cardinality({i \in 1..Len(Before.todos) : Before.todos[i].id = lastCall.id})
     /\ todos = Others(Before.todos, lastCall.id)

\* the first of two tasks with different ids was deleted
C8_Witness ==
  /\ lastCall.op = "deleteTodo"
  /\ Returned("true")
  /\ Len(Before.todos) = 2
  /\ Before.todos[1].id = lastCall.id
  /\ todos = <<Before.todos[2]>>

\* C9: deleteTodo, toggleTodo and startEdit of an id that is not in the
\* collection, and saveEdit outside an edit session, return failure, invoke
\* the error callback once and no other callback, and leave the collection,
\* the edit state, the input buffer and the validation error unchanged.
C9_FailingCallChangesNothing ==
  ( \/ /\ lastCall.op \in {"deleteTodo", "toggleTodo", "startEdit"}
       /\ ~Present(Before.todos, lastCall.id)
    \/ lastCall.op = "saveEdit" /\ ~Before.editState.isEditing )
  => /\ Returned("false")
     /\ Len(lastCall.callbacks) = 1
     /\ lastCall.callbacks[1].cb = "onError"
     /\ todos = Before.todos
     /\ editState = Before.editState
     /\ inputText = Before.inputText
     /\ validationError = Before.validationError

\* toggleTodo of an unknown id, with a task in the collection, a text in the
\* input buffer and a validation error showing
C9_Witness ==
  /\ lastCall.op = "toggleTodo"
  /\ lastCall.id = NonexistentId
  /\ Returned("false")
  /\ Len(todos) >= 1
  /\ inputText /= <<>>
  /\ validationError /= Null

\* C10: startEdit of an id present in the collection returns success; after
\* it isEditing is true, editingId is the id, editText and the input buffer
\* are the task's text and the validation error is cleared, whether or not
\* another task was under edit; the collection is unchanged.
C10_StartEditLoads ==
  (lastCall.op = "startEdit" /\ Present(Before.todos, lastCall.id))
  => /\ Returned("true")
     /\ editState.isEditing
     /\ editState.editingId = lastCall.id
     /\ \E i \in 1..Len(Before.todos) :
          /\ Before.todos[i].id = lastCall.id
          /\ editState.editText = Before.todos[i].text
          /\ inputText = Before.todos[i].text
     /\ validationError = Null
     /\ todos = Before.todos

\* the edit slot was switched from one task to another one
C10_Witness ==
  /\ lastCall.op = "startEdit"
  /\ Returned("true")
  /\ Before.editState.isEditing
  /\ Before.editState.editingId /= lastCall.id
  /\ editState.editingId = lastCall.id
  /\ Before.inputText /= inputText

\* C11: cancelEdit, in any state, leaves the collection as it was and ends
\* with isEditing false, editingId null, an empty input buffer and no
\* validation error.  startEdit and setInputText do not touch the collection
\* either, so a startEdit, any number of setInputText calls and a cancelEdit
\* leave the task's text and updatedAt as they were before the startEdit.
C11_CancelEditDiscards ==
  /\ lastCall.op = "cancelEdit" =>
       /\ todos = Before.todos
       /\ editState.isEditing = FALSE
       /\ editState.editingId = NullId
       /\ inputText = <<>>
       /\ validationError = Null
  /\ lastCall.op \in {"startEdit", "setInputText", "cancelEdit"} =>
       todos = Before.todos

\* an edit whose buffer had been retyped into an invalid text was cancelled
C11_Witness ==
  /\ lastCall.op = "cancelEdit"
  /\ Before.editState.isEditing
  /\ Before.inputText /= Before.editState.editText
  /\ Before.validationError /= Null
  /\ \E i \in 1..Len(todos) :
       /\ todos[i].id = Before.editState.editingId
       /\ todos[i].text = Before.editState.editText

\* the indices of the tasks of a collection that carry an id
WithId(list, id) == {i \in 1..Len(list) : list[i].id = id}

\* C12, as stated: toggleTodo(id) of a present id flips completed exactly
\* once, moves the task's updatedAt strictly forward and keeps id, text and
\* createdAt.
C12_ToggleAdvancesUpdatedAt ==
  (lastCall.op = "toggleTodo" /\ Present(Before.todos, lastCall.id))
  => /\ Returned("true")
     /\ Len(todos) = Len(Before.todos)
     /\ \A i \in WithId(Before.todos, lastCall.id) :
          /\ todos[i].completed = ~Before.todos[i].completed
          /\ todos[i].updatedAt > Before.todos[i].updatedAt
          /\ todos[i].id = Before.todos[i].id
          /\ todos[i].text = Before.todos[i].text
          /\ todos[i].createdAt = Before.todos[i].createdAt

\* C12, amended: toggleTodo(id) of a present id flips completed exactly once,
\* sets the task's updatedAt to the clock reading taken during the call and
\* keeps id, text and createdAt; applied twice to any collection it restores
\* every completed flag, the second call stamping its own clock reading.
C12_ToggleFlips ==
  /\ (lastCall.op = "toggleTodo" /\ Present(Before.todos, lastCall.id))
     => /\ Returned("true")
        /\ Len(todos) = Len(Before.todos)
        /\ \A i \in WithId(Before.todos, lastCall.id) :
             /\ todos[i].completed = ~Before.todos[i].completed
             /\ todos[i].updatedAt >= Before.now
             /\ todos[i].updatedAt <= now
             /\ todos[i].id = Before.todos[i].id
             /\ todos[i].text = Before.todos[i].text
             /\ todos[i].createdAt = Before.todos[i].createdAt
  /\ \A k \in 1..Len(todos) :
       LET id == todos[k].id IN
       \A ts1 \in ClockRuns(todos, WithId(todos, id), now) :
         LET once == toggleTodos(todos, id, ts1) IN
         \A ts2 \in ClockRuns(once, WithId(once, id), LastReading(ts1, now)) :
           LET twice == toggleTodos(once, id, ts2) IN
           \A i \in 1..Len(todos) :
             /\ once[i].completed = (todos[i].completed <=> i \notin WithId(todos, id))
             /\ twice[i].completed = todos[i].completed
             /\ twice[i].id = todos[i].id
             /\ twice[i].text = todos[i].text
             /\ twice[i].createdAt = todos[i].createdAt
             /\ twice[i].updatedAt =
                  IF i \in WithId(todos, id) THEN ts2[i] ELSE todos[i].updatedAt

\* a completed task was toggled back to pending within the clock reading of
\* its previous update, next to a task that was left alone
C12_Witness ==
  /\ lastCall.op = "toggleTodo"
  /\ Returned("true")
  /\ Len(todos) = 2
  /\ \E i, j \in 1..2 :
       /\ todos[i].id = lastCall.id
       /\ todos[j].id /= lastCall.id
       /\ Before.todos[i].completed
       /\ ~todos[i].completed
       /\ todos[i].updatedAt = Before.todos[i].updatedAt
       /\ todos[j] = Before.todos[j]

\* C13: toggleTodo never changes the edit state, the input buffer or the
\* validation error, also when the toggled id is the one under edit; and the
\* toggle is not lost by the edit: a successful saveEdit keeps the completed
\* flag the task has when it is called, so that a toggle of the edited task
\* followed by the saveEdit yields the new text and the toggled flag.
C13_ToggleKeepsEdit ==
  /\ lastCall.op = "toggleTodo" =>
       /\ editState = Before.editState
       /\ inputText = Before.inputText
       /\ validationError = Before.validationError
  /\ (IsSaveEdit /\ Returned("true")) =>
       \A i \in WithId(Before.todos, Before.editState.editingId) :
         /\ todos[i].completed = Before.todos[i].completed
         /\ todos[i].text = sanitizeTodoText(Before.inputText)
  /\ (editState.isEditing /\ ~ViolatesConfig(inputText)) =>
       LET id == editState.editingId
           sanitizedText == sanitizeTodoText(inputText) IN
       \A ts1 \in ClockRuns(todos, WithId(todos, id), now) :
         LET toggled == toggleTodos(todos, id, ts1) IN
         \A ts2 \in ClockRuns(toggled, WithId(toggled, id), LastReading(ts1, now)) :
           LET saved == saveEditTodos(toggled, id, sanitizedText, ts2) IN
           \A i \in WithId(todos, id) :
             /\ saved[i].completed = ~todos[i].completed
             /\ saved[i].text = sanitizedText

\* the task under edit was toggled while the buffer held a retyped valid text
C13_Witness ==
  /\ lastCall.op = "toggleTodo"
  /\ Returned("true")
  /\ editState.isEditing
  /\ editState.editingId = lastCall.id
  /\ inputText /= editState.editText
  /\ ~ViolatesConfig(inputText)
  /\ \E i \in WithId(todos, lastCall.id) : todos[i].completed

\* the indices of the tasks of a collection whose flag is not the given one
Flipped(list, completed) == {i \in 1..Len(list) : list[i].completed /= completed}

\* C14: markAllCompleted is idempotent: a call on a collection in which every
\* task is completed, as the first call leaves it, changes nothing, updatedAt
\* included, whatever the clock reads meanwhile.
C14_MarkAllCompletedIdempotent ==
  /\ lastCall.op = "markAllCompleted" =>
       /\ \A i \in 1..Len(todos) : todos[i].completed
       /\ (\A i \in 1..Len(Before.todos) : Before.todos[i].completed)
            => todos = Before.todos
       /\ \A ts \in ClockRuns(todos, Flipped(todos, TRUE), now) :
            markAllTodos(todos, TRUE, ts) = todos
  /\ \A ts1 \in ClockRuns(todos, Flipped(todos, TRUE), now) :
       LET once == markAllTodos(todos, TRUE, ts1) IN
       \A ts2 \in [1..Len(todos) -> Times] :
         markAllTodos(once, TRUE, ts2) = once

\* markAllCompleted was called again on a collection of completed tasks, one
\* of them completed at an earlier clock reading
C14_Witness ==
  /\ lastCall.op = "markAllCompleted"
  /\ Len(todos) = 2
  /\ \A i \in 1..2 : Before.todos[i].completed
  /\ \E i \in 1..2 : todos[i].updatedAt < now
  /\ todos = Before.todos

\* C15: after markAllCompleted every task is completed and after
\* markAllPending every task is pending; a task that already had the target
\* flag is the same task, updatedAt included; a task whose flag was flipped
\* has the clock reading of the call as its updatedAt and keeps id, text and
\* createdAt; on an empty collection the call changes nothing and still
\* invokes the success callback.
C15_MarkAllSetsFlag ==
  lastCall.op \in {"markAllCompleted", "markAllPending"} =>
    LET completed == (lastCall.op = "markAllCompleted") IN
    /\ Len(todos) = Len(Before.todos)
    /\ \A i \in 1..Len(todos) :
         /\ todos[i].completed = completed
         /\ Before.todos[i].completed = completed => todos[i] = Before.todos[i]
         /\ Before.todos[i].completed /= completed =>
              /\ todos[i].updatedAt >= Before.now
              /\ todos[i].updatedAt <= now
              /\ todos[i].id = Before.todos[i].id
              /\ todos[i].text = Before.todos[i].text
              /\ todos[i].createdAt = Before.todos[i].createdAt
    /\ lastCall.callbacks = <<onSuccess(lastCall.callbacks[1].message, <<>>)>>
    /\ Before.todos = <<>> => todos = <<>>

\* markAllPending flipped one task at a later clock reading and left a
\* pending one alone
C15_Witness ==
  /\ lastCall.op = "markAllPending"
  /\ Len(todos) = 2
  /\ \E i, j \in 1..2 :
       /\ Before.todos[i].completed
       /\ ~todos[i].completed
       /\ todos[i].updatedAt > Before.todos[i].updatedAt
       /\ ~Before.todos[j].completed
       /\ todos[j] = Before.todos[j]

\* C16: clearAllTodos, in any state, an edit session included, leaves the
\* collection empty, the edit state idle with editingId null, the input buffer
\* empty and the validation error cleared, and invokes the success callback.
C16_ClearAllResets ==
  lastCall.op = "clearAllTodos" =>
    /\ todos = <<>>
    /\ editState.isEditing = FALSE
    /\ editState.editingId = NullId
    /\ inputText = <<>>
    /\ validationError = Null
    /\ Invoked("onSuccess")

\* a full collection was cleared in the middle of an edit whose buffer held
\* an invalid text
C16_Witness ==
  /\ lastCall.op = "clearAllTodos"
  /\ Len(Before.todos) = MaxTodos
  /\ Before.editState.isEditing
  /\ Before.inputText /= <<>>
  /\ Before.validationError /= Null
  /\ todos = <<>>

StoreOperations ==
  {"addTodo", "deleteTodo", "toggleTodo", "startEdit", "saveEdit", "cancelEdit",
   "clearAllTodos", "markAllCompleted", "markAllPending", "handleSubmit"}

C18_IdsUnique ==
  /\ \A i, j \in 1..Len(todos) : i /= j => todos[i].id /= todos[j].id
  /\ (lastCall.op = "addTodo" /\ Returned("true")) =>
       ~Present(Before.todos, todos[Len(todos)].id)

\* the last call was a successful saveEdit, toggleTodo or bulk operation that
\* rebuilt the task at index i of the collection it was invoked on
ModifiedBy(i) ==
  \/ /\ IsSaveEdit
     /\ Returned("true")
     /\ Before.todos[i].id = Before.editState.editingId
  \/ /\ lastCall.op = "toggleTodo"
     /\ Returned("true")
     /\ Before.todos[i].id = lastCall.id
  \/ /\ lastCall.op \in {"markAllCompleted", "markAllPending"}
     /\ Before.todos[i].completed /= (lastCall.op = "markAllCompleted")

\* C19: every task has updatedAt >= createdAt; an operation other than a
\* removal keeps every task at its place with its id and createdAt, never
\* lowers its updatedAt, and changes its updatedAt only if it is a successful
\* saveEdit or toggleTodo of that task or a bulk operation that flips its
\* flag; a removal leaves the remaining tasks as they were.
C19_TaskTimestamps ==
  /\ \A i \in 1..Len(todos) : todos[i].updatedAt >= todos[i].createdAt
  /\ lastCall.op \notin {"init", "deleteTodo", "clearAllTodos"} =>
       /\ Len(todos) >= Len(Before.todos)
       /\ \A i \in 1..Len(Before.todos) :
            /\ todos[i].id = Before.todos[i].id
            /\ todos[i].createdAt = Before.todos[i].createdAt
            /\ todos[i].updatedAt >= Before.todos[i].updatedAt
            /\ todos[i].updatedAt /= Before.todos[i].updatedAt => ModifiedBy(i)
  /\ lastCall.op = "deleteTodo" =>
       todos = (IF Returned("true")
                  THEN Others(Before.todos, lastCall.id) ELSE Before.todos)
  /\ lastCall.op = "clearAllTodos" => todos = <<>>

\* a saveEdit moved the updatedAt of a task created at an earlier clock
\* reading and left the other task alone
C19_Witness ==
  /\ lastCall.op = "saveEdit"
  /\ Returned("true")
  /\ Len(todos) = 2
  /\ \E i, j \in 1..2 :
       /\ Before.todos[i].id = Before.editState.editingId
       /\ todos[i].updatedAt > Before.todos[i].updatedAt
       /\ todos[i].createdAt < todos[i].updatedAt
       /\ todos[i].createdAt = Before.todos[i].createdAt
       /\ i /= j
       /\ todos[j] = Before.todos[j]

\* C20: setInputText(text) stores text in the input buffer and leaves the
\* collection and the edit state as they were; afterwards the validation error
\* is non-null exactly when text is non-empty after trimming and violates the
\* validation configuration, so that an empty or white-space-only text clears
\* the validation error.
C20_SetInputTextValidates ==
  lastCall.op = "setInputText" =>
    /\ inputText = lastCall.text
    /\ todos = Before.todos
    /\ editState = Before.editState
    /\ (validationError /= Null) <=>
         (Len(Trim(lastCall.text)) > 0 /\ ViolatesConfig(lastCall.text))
    /\ Len(Trim(lastCall.text)) = 0 => validationError = Null

\* a white-space-only text was typed during an edit over a buffer that had
\* been flagged as invalid
C20_Witness ==
  /\ lastCall.op = "setInputText"
  /\ lastCall.text = <<"\t", " ">>
  /\ Before.validationError /= Null
  /\ Before.editState.isEditing
  /\ validationError = Null
  /\ inputText = <<"\t", " ">>

\* the reference rule chain on an already sanitized text: the first failing
\* rule gives the verdict
ReferenceChain(sanitized, config) ==
  IF ~config.allowEmpty /\ Len(sanitized) = 0 THEN "empty"
  ELSE IF Len(sanitized) < config.minLength THEN "too short"
  ELSE IF Len(sanitized) > config.maxLength THEN "too long"
  ELSE "valid"

\* the verdict a validation result stands for
Verdict(result, config) ==
  IF result.isValid THEN "valid"
  ELSE IF result.errorMessage = EmptyMessage THEN "empty"
  ELSE IF result.errorMessage = TooShortMessage(config) THEN "too short"
  ELSE IF result.errorMessage = TooLongMessage(config) THEN "too long"
  ELSE "other"

\* C21: validateTodoText(text, config) gives the verdict of the reference
\* rule chain (empty, too short, too long, valid, first failing rule first)
\* evaluated on sanitizeTodoText(text), for every text and configuration; the
\* default configuration is minLength 1, maxLength 500, allowEmpty false.
C21_ValidateIsReferenceChain ==
  /\ DEFAULT_VALIDATION_CONFIG =
       [minLength |-> 1, maxLength |-> 500, allowEmpty |-> FALSE]
  /\ (utilCall.fn = "validateTodoText" /\ utilCall.done) =>
       LET config == IF utilCall.args.config = Omitted
                       THEN [minLength |-> 1, maxLength |-> 500, allowEmpty |-> FALSE]
                       ELSE utilCall.args.config
       IN Verdict(utilCall.ret, config) =
            ReferenceChain(sanitizeTodoText(utilCall.args.text), config)

\* C22: the text stored by createTodo and by updateTodo is the sanitized
\* text given (ends trimmed, every inner run of white space collapsed to one
\* space); createTodo sets createdAt = updatedAt and, when completed is not
\* given, completed = false.
C22_ConstructorsSanitize ==
  /\ (utilCall.fn = "createTodo" /\ utilCall.done) =>
       /\ utilCall.ret.text = sanitizeTodoText(utilCall.args.input.text)
       /\ utilCall.ret.createdAt = utilCall.ret.updatedAt
       /\ "completed" \notin DOMAIN utilCall.args.input => ~utilCall.ret.completed
  /\ (utilCall.fn = "updateTodo" /\ utilCall.done
        /\ "text" \in DOMAIN utilCall.args.updates) =>
       utilCall.ret.text = sanitizeTodoText(utilCall.args.updates.text)

\* C23: updateTodo leaves the record it was given as it was and returns a
\* record with the same fields in which id and createdAt are the input's, text
\* and completed are the input's unless they are in the updates, completed is
\* the requested one when it is, and updatedAt is the clock reading.
C23_UpdateTodoFrame ==
  (utilCall.fn = "updateTodo" /\ utilCall.done) =>
    LET existingTodo == utilCall.args.existingTodo
        updates == utilCall.args.updates
        ret == utilCall.ret
    IN /\ utilCall.existingTodo = existingTodo
       /\ DOMAIN ret = DOMAIN existingTodo
       /\ ret.id = existingTodo.id
       /\ ret.createdAt = existingTodo.createdAt
       /\ "text" \notin DOMAIN updates => ret.text = existingTodo.text
       /\ "completed" \notin DOMAIN updates => ret.completed = existingTodo.completed
       /\ "completed" \in DOMAIN updates => ret.completed = updates.completed
       /\ ret.updatedAt = utilCall.nowDate

\* a completed todo was given a new text only, at a later clock reading
C23_Witness ==
  /\ utilCall.fn = "updateTodo"
  /\ utilCall.done
  /\ DOMAIN utilCall.args.updates = {"text"}
  /\ utilCall.args.existingTodo.completed
  /\ utilCall.ret.completed
  /\ utilCall.ret.text /= utilCall.args.existingTodo.text
  /\ utilCall.ret.updatedAt > utilCall.args.existingTodo.updatedAt

\* C24: sanitizeTodoText returns a text for every text, including the empty
\* one and those made of white space; sanitizing the result again gives the
\* result, which neither starts nor ends with white space and has no two
\* white space characters in a row.
C24_SanitizeIdempotent ==
  (utilCall.fn = "sanitizeTodoText" /\ utilCall.done) =>
    LET ret == utilCall.ret IN
    /\ ret \in Seq(UtilChars)
    /\ sanitizeTodoText(ret) = ret
    /\ ret /= <<>> => (ret[1] \notin WhiteSpace /\ ret[Len(ret)] \notin WhiteSpace)
    /\ \A i \in 1..(Len(ret) - 1) :
         ~(ret[i] \in WhiteSpace /\ ret[i + 1] \in WhiteSpace)

\* a text with an inner run of a tab and a space was sanitized to "a a"
C24_Witness ==
  /\ utilCall.fn = "sanitizeTodoText"
  /\ utilCall.done
  /\ utilCall.args.text = <<"a", "\t", " ", "a">>
  /\ utilCall.ret = <<"a", " ", "a">>

\* C25: in every state with isEditing true, editState.editText equals the
\* input buffer, also after setInputText calls made during the edit.
C25_EditTextMirrorsInput ==
  editState.isEditing => editState.editText = inputText

\* the ids of a collection, in order
IdsOf(list) == [i \in 1..Len(list) |-> list[i].id]

\* the last call ran a successful addTodo, directly or through handleSubmit
IsAddTodo ==
  \/ lastCall.op = "addTodo"
  \/ lastCall.op = "handleSubmit" /\ ~Before.editState.isEditing

\* C29: the sequence of ids of the collection changes only by one id appended
\* at the end (successful addTodo), by the removal of the tasks with one id,
\* the others keeping their order (successful deleteTodo), or by becoming
\* empty (clearAllTodos); toggleTodo, startEdit, saveEdit, cancelEdit,
\* setInputText, markAllCompleted and markAllPending leave it as it is.
C29_IdSequenceChanges ==
  LET ids == IdsOf(todos)
      before == IdsOf(Before.todos)
  IN /\ ids /= before =>
          \/ /\ IsAddTodo
             /\ Returned("true")
             /\ Len(ids) = Len(before) + 1
             /\ SubSeq(ids, 1, Len(before)) = before
          \/ /\ lastCall.op = "deleteTodo"
             /\ Returned("true")
             /\ ids = SelectSeq(before, LAMBDA id : id /= lastCall.id)
          \/ /\ lastCall.op = "clearAllTodos"
             /\ ids = <<>>
     /\ ( \/ lastCall.op \in {"toggleTodo", "startEdit", "cancelEdit",
                              "setInputText", "markAllCompleted", "markAllPending"}
          \/ IsSaveEdit )
        => ids = before

\* the first of two tasks was edited and saved: it is still the first
C29_Witness ==
  /\ lastCall.op = "saveEdit"
  /\ Returned("true")
  /\ Len(todos) = 2
  /\ todos[1].id = Before.editState.editingId
  /\ todos[2].id /= Before.editState.editingId
  /\ todos[1].text /= Before.todos[1].text
  /\ IdsOf(todos) = IdsOf(Before.todos)

\* C30: addTodo invoked during an edit session on a valid input buffer appends
\* a task with the sanitized text of the buffer, leaves the tasks present,
\* the one under edit included, and the edit state as they were and empties
\* the buffer; handleSubmit during an edit session runs saveEdit and leaves
\* the number and the ids of the tasks as they were.
C30_AddTodoIgnoresEdit ==
  /\ ( /\ lastCall.op = "addTodo"
       /\ Before.editState.isEditing
       /\ ~ViolatesConfig(Before.inputText) )
     => /\ Returned("true")
        /\ Len(todos) = Len(Before.todos) + 1
        /\ SubSeq(todos, 1, Len(Before.todos)) = Before.todos
        /\ todos[Len(todos)].text = sanitizeTodoText(Before.inputText)
        /\ editState = Before.editState
        /\ inputText = <<>>
  /\ (lastCall.op = "handleSubmit" /\ Before.editState.isEditing)
     => /\ IdsOf(todos) = IdsOf(Before.todos)
        /\ Returned("true") => editState = IdleEditState

\* addTodo was called with a retyped valid buffer while the only task was
\* under edit
C30_Witness ==
  /\ lastCall.op = "addTodo"
  /\ Returned("true")
  /\ Before.editState.isEditing
  /\ Before.inputText /= Before.editState.editText
  /\ Len(todos) = 2
  /\ editState.isEditing
  /\ editState.editingId = todos[1].id
  /\ todos[1] = Before.todos[1]

\* C28: when addTodo is invoked twice from one render, that is for the same
\* content of the input buffer and before the updates of the first invocation
\* were rendered, the second invocation is rejected and the collection grows
\* by at most one task.
C28_NoDoubleSubmission ==
  /\ Len(todos) <= Len(rendered.todos) + 1
  /\ (lastCall.op = "addTodo" /\ Len(Before.todos) > Len(rendered.todos))
       => Returned("false")

\* C27: once the alert was closed by its button or unmounted its interval is
\* not set any more; while the pointer is over a persistent alert the
\* countdown does not close it; and onClose is invoked at most once for one
\* alert, by the countdown or by the close button.
C27_CountdownFiresOnce ==
  /\ (~alert.mounted \/ alert.closedBy = "button") => ~alert.timer.running
  /\ (alert.mounted /\ alert.props.persistent /\ alert.hovered /\ alert.opened)
       => ~alert.timer.running
  /\ alert.onCloseCalls <= 1

\* C26: the dismissal timers are independent per notification.  A timeout
\* that runs never dismisses a notification other than the one it was started
\* for; a notification that a timer dismisses has been displayed for the
\* whole of its own duration (3 s for a success, 5 s for an error); and the
\* timeout of a notification that was closed with the button changes nothing
\* when it runs.
C26_TimersIndependent ==
  /\ (lastCall.op = "timeout" /\ lastCall.before # NoNotification)
       => lastCall.before.serial = lastCall.timer.serial
  /\ (lastCall.op \in {"timeout", "countdown"} /\ lastCall.before # NoNotification)
       => now >= lastCall.before.raisedAt + Duration(lastCall.before.type)
  /\ (lastCall.op = "timeout" /\ lastCall.timer.closed)
       => lastCall.before = NoNotification

====
